---- MODULE Spec2Model ----
(***************************************************************************)
(* Model of src/utils.py: the cell-range helpers (_get_col_letter,         *)
(* _build_column_keys, _build_value_range, _build_col_range) and the       *)
(* worksheet wrapper methods that write rows (find_last_row, list_fill,    *)
(* fill_headers).                                                          *)
(*                                                                         *)
(* A Python str is a sequence of one-character strings; Str joins such a   *)
(* sequence into one string so that expected values read as in the source. *)
(* A call either returns a value or raises: its outcome is the record      *)
(* [raised |-> "none" | "ValueError", value |-> <the str returned>].       *)
(***************************************************************************)
EXTENDS Integers, Sequences, FiniteSets, TLC

VARIABLES
    pc,         \* "call": the arguments are bound, the body has not run; "done": it has
    fn,         \* the function being called
    args,       \* its arguments: [index, values, current_row, column_letter]
    result,     \* its outcome once pc = "done"
    sheet,      \* the worksheet: sheet[r][c] is the value of the cell in row r, column c
    last        \* the last wrapper method run on the worksheet, with its data and outcome

vars == <<pc, fn, args, result, sheet, last>>

-----------------------------------------------------------------------------
(* Bounds of the model *)

\* indices run over -NegSpan .. MaxIndex, rows over -NegSpan .. MaxRow
NegSpan == 3
\* 702 is the first three-letter label
MaxIndex == 704
\* longest value list handed to the range builders
MaxValues == 30
\* largest row handed to _build_value_range (two digits are reached)
MaxRow == 12
\* longest column_letter handed to _build_col_range
MaxLabelLen == 2
\* rows and columns of the modelled worksheet
SheetRows == 3
SheetCols == 2

-----------------------------------------------------------------------------
(* Python strings *)

\* mapping = ('ABCDEFGHIJKLMNOPQRSTUVWXYZ'), indexed from 1 here
mapping ==
    << "A", "B", "C", "D", "E", "F", "G", "H", "I", "J", "K", "L", "M",
       "N", "O", "P", "Q", "R", "S", "T", "U", "V", "W", "X", "Y", "Z" >>

base == 26

lowercase ==
    << "a", "b", "c", "d", "e", "f", "g", "h", "i", "j", "k", "l", "m",
       "n", "o", "p", "q", "r", "s", "t", "u", "v", "w", "x", "y", "z" >>

digits == << "0", "1", "2", "3", "4", "5", "6", "7", "8", "9" >>

\* the one string made of the characters of s
RECURSIVE Str(_)
Str(s) == IF s = << >> THEN "" ELSE Head(s) \o Str(Tail(s))

\* str.upper() on one character: a-z go to A-Z, every other character stays
upper_char(c) ==
    IF \E i \in 1..26 : lowercase[i] = c
    THEN mapping[CHOOSE i \in 1..26 : lowercase[i] = c]
    ELSE c

\* str.upper()
upper(s) == [i \in 1..Len(s) |-> upper_char(s[i])]

\* '{}'.format(n) for an int n: its decimal digits, '-' first when negative
RECURSIVE format_int(_)
format_int(n) ==
    IF n < 0 THEN << "-" >> \o format_int(-n)
    ELSE IF n < 10 THEN << digits[n + 1] >>
    ELSE format_int(n \div 10) \o << digits[(n % 10) + 1] >>

\* len(values)
len(values) == Len(values)

-----------------------------------------------------------------------------
(* Reading strings back: what worksheet.range() does with a range, and what
   the properties below say about a returned string *)

IsUpperLetter(c) == \E i \in 1..26 : mapping[i] = c
IsLowerLetter(c) == \E i \in 1..26 : lowercase[i] = c
IsDigit(c) == \E i \in 1..10 : digits[i] = c

\* position of a letter in the alphabet, 1..26, whatever its case
LetterRank(c) ==
    IF IsUpperLetter(c) THEN CHOOSE i \in 1..26 : mapping[i] = c
    ELSE CHOOSE i \in 1..26 : lowercase[i] = c

\* s matches ^[A-Z]+$
IsLabel(s) == Len(s) >= 1 /\ \A i \in 1..Len(s) : IsUpperLetter(s[i])

\* s is made of letters only, in either case, and is not empty
IsLetters(s) ==
    Len(s) >= 1 /\ \A i \in 1..Len(s) : IsUpperLetter(s[i]) \/ IsLowerLetter(s[i])

\* the number a label denotes as a bijective base-26 numeral (A = 1 .. Z = 26)
RECURSIVE BijectiveValue(_)
BijectiveValue(s) ==
    IF s = << >> THEN 0
    ELSE base * BijectiveValue(SubSeq(s, 1, Len(s) - 1)) + LetterRank(s[Len(s)])

\* s is the decimal numeral of n >= 0, without leading zeros
RECURSIVE DecimalValue(_)
DecimalValue(s) ==
    IF s = << >> THEN 0
    ELSE 10 * DecimalValue(SubSeq(s, 1, Len(s) - 1))
         + ((CHOOSE i \in 1..10 : digits[i] = s[Len(s)]) - 1)

IsDecimalOf(s, n) ==
    /\ Len(s) >= 1
    /\ \A i \in 1..Len(s) : IsDigit(s[i])
    /\ (Len(s) > 1 => s[1] # "0")
    /\ DecimalValue(s) = n

\* U is s with every letter in upper case
IsUpperOf(U, s) ==
    /\ Len(U) = Len(s)
    /\ \A i \in 1..Len(s) : IsUpperLetter(U[i]) /\ LetterRank(U[i]) = LetterRank(s[i])

\* labels compared first by length, then lexicographically
LabelLess(a, b) ==
    \/ Len(a) < Len(b)
    \/ /\ Len(a) = Len(b)
       /\ \E k \in 1..Len(a) :
            /\ \A i \in 1..(k - 1) : a[i] = b[i]
            /\ LetterRank(a[k]) < LetterRank(b[k])

-----------------------------------------------------------------------------
(* Outcomes of a call *)

Return(v) == [raised |-> "none", value |-> v]
Raise(e) == [raised |-> e, value |-> << >>]
NoResult == [raised |-> "pending", value |-> << >>]

-----------------------------------------------------------------------------
(* The module-level helpers *)

\* a slip of _get_col_letter: recursing on quotient instead of quotient - 1
RECURSIVE get_col_letter_quotient(_)
get_col_letter_quotient(index) ==
    IF index < 0 THEN Raise("ValueError")
    ELSE LET quotient == index \div base
             remainder == index % base
         IN  IF quotient > 0
             THEN LET head == get_col_letter_quotient(quotient)
                  IN  IF head.raised # "none" THEN head
                      ELSE Return(head.value \o << mapping[remainder + 1] >>)
             ELSE Return(<< mapping[remainder + 1] >>)

\* a slip of _get_col_letter: the index < 0 check left out
RECURSIVE get_col_letter_unchecked(_)
get_col_letter_unchecked(index) ==
    LET quotient == index \div base
        remainder == index % base
    IN  IF quotient > 0
        THEN LET head == get_col_letter_unchecked(quotient - 1)
             IN  Return(head.value \o << mapping[remainder + 1] >>)
        ELSE Return(<< mapping[remainder + 1] >>)

\* a slip of _get_col_letter: the letter put before the recursive label
RECURSIVE get_col_letter_prepend(_)
get_col_letter_prepend(index) ==
    IF index < 0 THEN Raise("ValueError")
    ELSE LET quotient == index \div base
             remainder == index % base
         IN  IF quotient > 0
             THEN LET head == get_col_letter_prepend(quotient - 1)
                  IN  IF head.raised # "none" THEN head
                      ELSE Return(<< mapping[remainder + 1] >> \o head.value)
             ELSE Return(<< mapping[remainder + 1] >>)

\* _get_col_letter(index)
RECURSIVE get_col_letter(_)
get_col_letter(index) ==
    IF index < 0 THEN Raise("ValueError")
    ELSE LET quotient == index \div base
             remainder == index % base
         IN  IF quotient > 0
             THEN LET head == get_col_letter(quotient - 1)
                  IN  IF head.raised # "none" THEN head
                      ELSE Return(head.value \o << mapping[remainder + 1] >>)
             ELSE Return(<< mapping[remainder + 1] >>)

\* a slip of _build_column_keys: len(values) taken as the last column index
build_column_keys_len(values) ==
    LET value == len(values)
        cell_letter == get_col_letter(value)
    IN  IF cell_letter.raised # "none" THEN cell_letter
        ELSE Return(<< "A", "1", ":" >> \o cell_letter.value \o << "1" >>)

\* _build_column_keys(values)
build_column_keys(values) ==
    LET value == len(values) - 1
        cell_letter == get_col_letter(value)
    IN  IF cell_letter.raised # "none" THEN cell_letter
        ELSE Return(<< "A", "1", ":" >> \o cell_letter.value \o << "1" >>)

\* _build_value_range(values, current_row)
build_value_range(values, current_row) ==
    LET end_cell_letter == get_col_letter(len(values) - 1)
    IN  IF end_cell_letter.raised # "none" THEN end_cell_letter
        ELSE Return(<< "A" >> \o format_int(current_row) \o << ":" >>
                    \o end_cell_letter.value \o format_int(current_row))

\* a slip of _build_col_range: column_letter used as given, not upper-cased
build_col_range_as_given(values, column_letter) ==
    LET end_row_num == len(values) + 1
    IN  Return(column_letter \o << "2", ":" >>
               \o column_letter \o format_int(end_row_num))

\* a variant of _build_col_range: the end row kept from falling below row 2
build_col_range_clamped(values, column_letter) ==
    LET end_row_num == IF len(values) + 1 < 2 THEN 2 ELSE len(values) + 1
    IN  Return(upper(column_letter) \o << "2", ":" >>
               \o upper(column_letter) \o format_int(end_row_num))

\* _build_col_range(values, column_letter)
build_col_range(values, column_letter) ==
    LET end_row_num == len(values) + 1
    IN  Return(upper(column_letter) \o << "2", ":" >>
               \o upper(column_letter) \o format_int(end_row_num))

-----------------------------------------------------------------------------
(* Inputs *)

\* a list of n values; the helpers read only its length
ValuesOfLen(n) == [i \in 1..n |-> "v"]

LabelChars == {"a", "b", "z", "A", "B", "Z", "1", "$"}

RECURSIVE SeqsUpTo(_, _)
SeqsUpTo(S, n) ==
    IF n = 0 THEN {<< >>}
    ELSE LET shorter == SeqsUpTo(S, n - 1)
         IN  shorter \cup {Append(s, c) : s \in {t \in shorter : Len(t) = n - 1}, c \in S}

NoArgs == [index |-> 0, values |-> << >>, current_row |-> 0, column_letter |-> << >>]

ArgsOf(f) ==
    CASE f = "_get_col_letter" ->
           {[NoArgs EXCEPT !.index = i] : i \in (-NegSpan)..MaxIndex}
      [] f = "_build_column_keys" ->
           {[NoArgs EXCEPT !.values = ValuesOfLen(n)] : n \in 0..MaxValues}
      [] f = "_build_value_range" ->
           {[NoArgs EXCEPT !.values = ValuesOfLen(n), !.current_row = r] :
                n \in 0..MaxValues, r \in (-NegSpan)..MaxRow}
      [] f = "_build_col_range" ->
           {[NoArgs EXCEPT !.values = ValuesOfLen(n), !.column_letter = l] :
                n \in 0..MaxValues, l \in SeqsUpTo(LabelChars, MaxLabelLen)}

Helpers == {"_get_col_letter", "_build_column_keys", "_build_value_range", "_build_col_range"}

EmptySheet == [r \in 1..SheetRows |-> [c \in 1..SheetCols |-> ""]]
NoLast == [method |-> "none", data |-> << >>, raised |-> "none"]

-----------------------------------------------------------------------------
(* Calls of the helpers *)

Init ==
    /\ pc = "call"
    /\ fn \in Helpers
    /\ args \in ArgsOf(fn)
    /\ result = NoResult
    /\ sheet = EmptySheet
    /\ last = NoLast

GetColLetter ==
    /\ pc = "call" /\ fn = "_get_col_letter"
    /\ result' = get_col_letter(args.index)
    /\ pc' = "done"
    /\ UNCHANGED <<fn, args, sheet, last>>

BuildColumnKeys ==
    /\ pc = "call" /\ fn = "_build_column_keys"
    /\ result' = build_column_keys(args.values)
    /\ pc' = "done"
    /\ UNCHANGED <<fn, args, sheet, last>>

BuildValueRange ==
    /\ pc = "call" /\ fn = "_build_value_range"
    /\ result' = build_value_range(args.values, args.current_row)
    /\ pc' = "done"
    /\ UNCHANGED <<fn, args, sheet, last>>

BuildColRange ==
    /\ pc = "call" /\ fn = "_build_col_range"
    /\ result' = build_col_range(args.values, args.column_letter)
    /\ pc' = "done"
    /\ UNCHANGED <<fn, args, sheet, last>>

Next == GetColLetter \/ BuildColumnKeys \/ BuildValueRange \/ BuildColRange

Spec == Init /\ [][Next]_vars

-----------------------------------------------------------------------------
(* The worksheet wrapper *)

\* the values written to cells; none is the empty string
CellValues == {"h", "x"}

\* the lists handed to list_fill and fill_headers
DataLists == SeqsUpTo(CellValues, SheetCols)

\* worksheet.col_values(col): the column down to its last non-empty cell
col_values(ws, col) ==
    LET filled == {r \in 1..SheetRows : ws[r][col] # ""}
        bottom == IF filled = {} THEN 0 ELSE CHOOSE r \in filled : \A q \in filled : q <= r
    IN  [r \in 1..bottom |-> ws[r][col]]

\* GoogleWorksheetWrapper.find_last_row(col_value)
find_last_row(ws, col_value) == len(col_values(ws, col_value))

\* one corner of a range, "{letters}{digits}", as [row, col]
corner(s) ==
    LET k == Cardinality({i \in 1..Len(s) : IsUpperLetter(s[i])})
    IN  [row |-> DecimalValue(SubSeq(s, k + 1, Len(s))),
         col |-> BijectiveValue(SubSeq(s, 1, k))]

\* worksheet.range(cell_range): the cells of "{corner}:{corner}", row by row
range(cell_range) ==
    LET colon == CHOOSE i \in 1..Len(cell_range) : cell_range[i] = ":"
        first == corner(SubSeq(cell_range, 1, colon - 1))
        final == corner(SubSeq(cell_range, colon + 1, Len(cell_range)))
        width == final.col - first.col + 1
        count == (final.row - first.row + 1) * width
    IN  [i \in 1..count |-> [row |-> first.row + ((i - 1) \div width),
                             col |-> first.col + ((i - 1) % width)]]

\* for cell, new_value in izip(cells, data): cell.value = new_value
\* then worksheet.update_cells(cells)
update_cells(ws, cells, data) ==
    LET n == IF Len(cells) < Len(data) THEN Len(cells) ELSE Len(data)
        written(r, c) == {i \in 1..n : cells[i].row = r /\ cells[i].col = c}
    IN  [r \in 1..SheetRows |-> [c \in 1..SheetCols |->
            IF written(r, c) = {} THEN ws[r][c]
            ELSE data[CHOOSE i \in written(r, c) : \A j \in written(r, c) : j <= i]]]

\* GoogleWorksheetWrapper.list_fill(data, _range): the worksheet it leaves and
\* what it raised; _range is not read
list_fill(ws, data, _range) ==
    LET last_row == find_last_row(ws, 1) + 1
        cell_range == build_value_range(data, last_row)
    IN  IF cell_range.raised # "none"
        THEN [sheet |-> ws, raised |-> cell_range.raised]
        ELSE [sheet |-> update_cells(ws, range(cell_range.value), data),
              raised |-> "none"]

\* GoogleWorksheetWrapper.fill_headers(header_list)
fill_headers(ws, header_list) ==
    LET header_range == build_column_keys(header_list)
    IN  IF header_range.raised # "none"
        THEN [sheet |-> ws, raised |-> header_range.raised]
        ELSE list_fill(ws, header_list, header_range.value)

SheetInit ==
    /\ pc = "done"
    /\ fn = "none"
    /\ args = NoArgs
    /\ result = NoResult
    /\ sheet = EmptySheet
    /\ last = NoLast

\* the written row lies on the modelled grid
OnGrid == find_last_row(sheet, 1) + 1 <= SheetRows

ListFill ==
    \E data \in DataLists :
        /\ OnGrid
        /\ LET out == list_fill(sheet, data, << >>)
           IN  /\ sheet' = out.sheet
               /\ last' = [method |-> "list_fill", data |-> data, raised |-> out.raised]
        /\ UNCHANGED <<pc, fn, args, result>>

FillHeaders ==
    \E header_list \in DataLists :
        /\ OnGrid
        /\ LET out == fill_headers(sheet, header_list)
           IN  /\ sheet' = out.sheet
               /\ last' = [method |-> "fill_headers", data |-> header_list,
                           raised |-> out.raised]
        /\ UNCHANGED <<pc, fn, args, result>>

SheetNext == ListFill \/ FillHeaders

SheetSpec == SheetInit /\ [][SheetNext]_vars

-----------------------------------------------------------------------------
(* Claims about the helpers *)

Done(f) == pc = "done" /\ fn = f
Returned == result.raised = "none"
Raised(e) == result.raised = e /\ result.value = << >>

\* C1: for every index >= 0, _get_col_letter returns the bijective base-26
\* label of index: a non-empty string over A-Z whose last letter is the
\* remainder-th letter, that is one letter long when the quotient is 0 and
\* otherwise continues the label of quotient - 1; 0 -> "A", 25 -> "Z",
\* 26 -> "AA", 27 -> "AB", 51 -> "AZ", 52 -> "BA", 701 -> "ZZ", 702 -> "AAA".
C1_ColumnLabelIsBijectiveBase26 ==
    (Done("_get_col_letter") /\ args.index >= 0) =>
        LET index == args.index
            label == result.value
            q == index \div 26
            r == index % 26
            front == SubSeq(label, 1, Len(label) - 1)
        IN  /\ Returned
            /\ IsLabel(label)
            /\ label[Len(label)] = mapping[r + 1]
            /\ (q = 0 => Len(label) = 1)
            /\ (q > 0 => IsLabel(front) /\ BijectiveValue(front) = q)
            /\ BijectiveValue(label) = index + 1
            /\ (index = 0 => Str(label) = "A")
            /\ (index = 25 => Str(label) = "Z")
            /\ (index = 26 => Str(label) = "AA")
            /\ (index = 27 => Str(label) = "AB")
            /\ (index = 51 => Str(label) = "AZ")
            /\ (index = 52 => Str(label) = "BA")
            /\ (index = 701 => Str(label) = "ZZ")
            /\ (index = 702 => Str(label) = "AAA")

C1_Witness ==
    Done("_get_col_letter") /\ args.index = 702 /\ Returned /\ Str(result.value) = "AAA"

\* C2: for every index < 0, _get_col_letter raises ValueError and returns no
\* label, not even a partial one.
C2_NegativeIndexRaises ==
    (Done("_get_col_letter") /\ args.index < 0) => Raised("ValueError")

C2_Witness ==
    Done("_get_col_letter") /\ args.index = -1 /\ Raised("ValueError")

\* C3: for a value list of length N >= 1 (and a row >= 1), _build_column_keys
\* returns "A1:{label(N-1)}1" and _build_value_range returns
\* "A{row}:{label(N-1)}{row}"; 29 values give "A1:AC1", 3 values in row 5
\* give "A5:C5".
C3_SingleRowRanges ==
    /\ (Done("_build_column_keys") /\ len(args.values) >= 1) =>
          LET N == len(args.values)
              end_col == SubSeq(result.value, 4, Len(result.value) - 1)
          IN  /\ Returned
              /\ SubSeq(result.value, 1, 3) = << "A", "1", ":" >>
              /\ result.value[Len(result.value)] = "1"
              /\ IsLabel(end_col) /\ BijectiveValue(end_col) = N
              /\ end_col = get_col_letter(N - 1).value
              /\ (N = 29 => Str(result.value) = "A1:AC1")
    /\ (Done("_build_value_range") /\ len(args.values) >= 1 /\ args.current_row >= 1) =>
          LET N == len(args.values)
              row == args.current_row
              w == IF row < 10 THEN 1 ELSE IF row < 100 THEN 2 ELSE 3
              total == Len(result.value)
              end_col == SubSeq(result.value, w + 3, total - w)
          IN  /\ Returned
              /\ result.value[1] = "A"
              /\ IsDecimalOf(SubSeq(result.value, 2, w + 1), row)
              /\ result.value[w + 2] = ":"
              /\ IsLabel(end_col) /\ BijectiveValue(end_col) = N
              /\ end_col = get_col_letter(N - 1).value
              /\ IsDecimalOf(SubSeq(result.value, total - w + 1, total), row)
              /\ (N = 3 /\ row = 5 => Str(result.value) = "A5:C5")

C3_Witness ==
    Done("_build_column_keys") /\ len(args.values) = 29
        /\ Returned /\ Str(result.value) = "A1:AC1"

\* C4: _build_column_keys and _build_value_range (any row) called with an
\* empty value list raise ValueError and return no range.
C4_EmptyValuesRaise ==
    ((Done("_build_column_keys") \/ Done("_build_value_range")) /\ len(args.values) <= 0)
        => Raised("ValueError")

C4_Witness ==
    Done("_build_value_range") /\ len(args.values) = 0 /\ args.current_row = 5
        /\ Raised("ValueError")

\* C5 (as claimed): _build_value_range called with a row < 1 and at least one
\* value raises ValueError and returns no range.
C5_RowBelowOneRaises ==
    (Done("_build_value_range") /\ args.current_row < 1 /\ len(args.values) >= 1)
        => Raised("ValueError")

\* C6: for n >= 1 values and a column letter made of letters in either case,
\* _build_col_range returns "{L}2:{L}{n+1}" with L the letter in upper case;
\* 5 values and "b" give "B2:B6".
C6_ColumnRange ==
    (Done("_build_col_range") /\ len(args.values) >= 1 /\ IsLetters(args.column_letter)) =>
        LET n == len(args.values)
            k == Len(args.column_letter)
            total == Len(result.value)
            L == SubSeq(result.value, 1, k)
        IN  /\ Returned
            /\ IsUpperOf(L, args.column_letter)
            /\ SubSeq(result.value, k + 1, k + 2) = << "2", ":" >>
            /\ SubSeq(result.value, k + 3, 2 * k + 2) = L
            /\ IsDecimalOf(SubSeq(result.value, 2 * k + 3, total), n + 1)
            /\ (n = 5 /\ args.column_letter = << "b" >> => Str(result.value) = "B2:B6")

C6_Witness ==
    Done("_build_col_range") /\ len(args.values) = 5 /\ args.column_letter = << "b" >>
        /\ Returned /\ Str(result.value) = "B2:B6"

C8_MalformedLabelRaises ==
    (Done("_build_col_range") /\ ~IsLabel(upper(args.column_letter)))
        => Raised("ValueError")

\* C9: _get_col_letter is strictly increasing: the label of an index is
\* greater, by length and then lexicographically, than the label of every
\* smaller index >= 0; so no two indices share a label.
C9_ColumnLabelStrictlyIncreasing ==
    (Done("_get_col_letter") /\ args.index >= 0) =>
        \A i \in 0..(args.index - 1) :
            /\ LabelLess(get_col_letter(i).value, result.value)
            /\ get_col_letter(i).value # result.value

C9_Witness ==
    Done("_get_col_letter") /\ args.index = 26 /\ Returned
        /\ LabelLess(get_col_letter(25).value, result.value)

-----------------------------------------------------------------------------
(* Claims about the worksheet wrapper *)

\* C10 (as claimed): after fill_headers(header_list) with a non-empty
\* header_list, whatever the worksheet held before, row 1 holds header_list
\* from column A on.
C10_HeadersLandInRow1 ==
    (last.method = "fill_headers" /\ len(last.data) >= 1) =>
        \A c \in 1..len(last.data) : sheet[1][c] = last.data[c]

====
